---- MODULE Spec2Model ----
(***************************************************************************)
(* ProcessManager of dvc_task/proc/manager.py: a registry of named process *)
(* entries kept as <wdir>/<name>/<name>.json, shared through the file      *)
(* system by any number of callers and by the external executor that       *)
(* spawns the processes and records their exit codes.                      *)
(*                                                                         *)
(* Every file system call and every os.kill of the manager is one atomic   *)
(* step; steps of different callers and of the executor interleave freely. *)
(***************************************************************************)
EXTENDS Integers, Sequences, FiniteSets, TLC

\* Total number of manager calls made by all callers together.
MaxCalls == 2

\* The entry names the executor may create (each name is used once).
Names == {1, 2}
Callers == {"c1", "c2"}

\* An optional integer: <<>> is Python's None, <<v>> the integer v.
None == <<>>
Some(v) == <<v>>

\* The exit code the executor records for a finished process.
ExitCodes == {0}
\* The returncode handle_closed_process stores (manager.py line 118).
ClosedReturncode == -1

\* sys.platform values that matter to the manager.
Platforms == {"posix", "win32"}
\* Signal values callers pass to send_signal.
Signals == {"SIGTERM", "SIGKILL", "CTRL_C_EVENT"}
\* The win32 signal check with SIGKILL let through.
Win32SignalsWithKill == {"SIGTERM", "SIGKILL", "CTRL_C_EVENT", "CTRL_BREAK_EVENT"}
\* manager.py lines 107-111: the signals send_signal accepts on win32.
Win32Signals == {"SIGTERM", "CTRL_C_EVENT", "CTRL_BREAK_EVENT"}

\* The pid the executor stores in the record of entry n (never mutated).
Pid(n) == 100 + n

\* What <wdir>/<name> holds: no directory, a directory without the record
\* file, a record file that is not (yet) valid JSON, or a ProcessInfo.
NoEntry == [kind |-> "absent", pid |-> 0, returncode |-> None]
NoFile == [kind |-> "nofile", pid |-> 0, returncode |-> None]
BadFile == [kind |-> "malformed", pid |-> 0, returncode |-> None]
ProcessInfo(p, rc) == [kind |-> "json", pid |-> p, returncode |-> rc]
\* The default a caller passes to get.
Default == [kind |-> "default", pid |-> 0, returncode |-> None]

VARIABLES
    platform,   \* sys.platform
    store,      \* store[n]: what <wdir>/<n> holds
    phase,      \* phase[n]: the executor's progress with entry n
    cs,         \* cs[c]: the call caller c is in, its locals and its outcome
    ncalls,     \* manager calls begun so far
    oscall,     \* the os.kill call made by the last step, or NoCall
    ret         \* the call that ended in the last step, or NoReturn

vars == <<platform, store, phase, cs, ncalls, oscall, ret>>

\* No os.kill was made by the last step.
NoCall == [pid |-> 0, sig |-> "none", by |-> "none"]

\* A caller outside any call. In a call: op, name, sig and force are the call
\* and its arguments, info the record send_signal loaded, todo the listed
\* names still to visit, got what processes() has yielded, out how the call
\* ended. passed and sent are history: whether remove got past its
\* ProcessNotTerminatedError check, and how the os.kill of the call ended
\* ("none" when none was made; for cleanup, both are about the last name).
IdleCaller ==
    [pc |-> "idle", op |-> "none", name |-> 0, sig |-> "none",
     force |-> FALSE, info |-> NoEntry, todo |-> {}, out |-> "none",
     got |-> {}, passed |-> FALSE, sent |-> "none"]

\* The locals of a call that has just begun.
NewCall(o, n, s, f, at) ==
    [IdleCaller EXCEPT !.pc = at, !.op = o, !.name = n, !.sig = s,
                       !.force = f, !.out = "pending"]

\* No call ended in the last step.
NoReturn == [by |-> "none", call |-> IdleCaller]

Init ==
    /\ platform \in Platforms
    /\ store = [n \in Names |-> NoEntry]
    /\ phase = [n \in Names |-> "new"]
    /\ cs = [c \in Callers |-> IdleCaller]
    /\ ncalls = 0
    /\ oscall = NoCall
    /\ ret = NoReturn

--------------------------------------------------------------------------
\* The store: __iter__, __getitem__, __setitem__, __delitem__.

\* __iter__: the names os.listdir(wdir) returns (none when wdir is missing).
Listing == {n \in Names : store[n].kind # "absent"}

\* __getitem__: how loading the record of n ends.
LoadResult(n) ==
    CASE store[n].kind \in {"absent", "nofile"} -> "KeyError"
      [] store[n].kind = "malformed" -> "JSONDecodeError"
      [] OTHER -> "ok"

\* __setitem__ with an open() that creates the directory it lacks.
SetItemNeverFails(n) == FALSE
\* __setitem__: the store after self[n] = info; the open() fails when the
\* entry's directory is missing, and the store is then left as it is.
SetItemFails(n) == store[n].kind = "absent"
SetItem(n, info) == [store EXCEPT ![n] = info]

\* __delitem__ with the test of line 63 inverted.
DelItemIfMissing(n) == store
\* __delitem__: the store after del self[n].
DelItem(n) ==
    IF store[n].kind # "absent" THEN [store EXCEPT ![n] = NoEntry] ELSE store
--------------------------------------------------------------------------
\* The decisions of send_signal, kill, remove, cleanup and processes.

\* send_signal lines 106-112: the signal is refused on this platform.
Unsupported(plat, sig) == plat = "win32" /\ sig \notin Win32Signals

\* Line 121 without its test of the returncode.
ShouldSignalAlways(info) == TRUE
\* send_signal line 121: os.kill is attempted only for such a record.
ShouldSignal(info) == info.returncode = None

\* handle_closed_process taking the entry away instead of writing it.
HealedInfoDropped(info) == NoEntry
\* handle_closed_process recording a clean exit instead of -1.
HealedInfoSuccess(info) == [info EXCEPT !.returncode = Some(0)]
\* handle_closed_process without the assignment of line 118.
HealedInfoUnset(info) == info
\* handle_closed_process lines 118-119: the record written back.
HealedInfo(info) == [info EXCEPT !.returncode = Some(ClosedReturncode)]

\* Lines 124-131 with every failure of os.kill taken for a closed process.
IsClosedProcessAnyError(plat, res) == res # "ok"
\* send_signal lines 124-131: the failure of os.kill on which the record
\* is self-healed: ProcessLookupError, and winerror 87 on win32.
IsClosedProcess(plat, res) ==
    \/ res = "ProcessLookupError"
    \/ (res = "winerror87" /\ plat = "win32")

\* kill with the test of line 140 dropped: SIGKILL on every platform.
KillSignalPosixOnly(plat) == "SIGKILL"
\* terminate line 136 and kill lines 140-143: the signal passed on.
TerminateSignal == "SIGTERM"
KillSignal(plat) == IF plat = "win32" THEN "SIGTERM" ELSE "SIGKILL"

\* remove without the except KeyError of lines 157-158.
RemoveReturnsOnNothing(res) == FALSE
\* remove lines 157-158: the load failure on which remove just returns.
RemoveReturnsOn(res) == res = "KeyError"

\* Line 159 with the test of the returncode inverted.
MustRefuseTerminated(info, force) == info.returncode # None /\ ~force
\* Line 159 with the test of force inverted.
MustRefuseForced(info, force) == info.returncode = None /\ force
\* remove lines 159-160: remove raises ProcessNotTerminatedError.
MustRefuse(info, force) == info.returncode = None /\ ~force

\* remove without the except ProcessLookupError of lines 163-164.
RemoveSwallowsNothing(res) == FALSE
\* remove lines 163-164: the failure of kill that remove passes over.
RemoveSwallows(res) == res = "ProcessLookupError"

\* cleanup without the except ProcessNotTerminatedError of lines 172-173.
CleanupSwallowsNothing(res) == FALSE
\* cleanup lines 172-173: the failure of remove that cleanup passes over.
CleanupSwallows(res) == res = "ProcessNotTerminatedError"

\* get without the except KeyError of lines 70-71.
GetDefaultsOnNothing(res) == FALSE
\* get lines 70-71: the load failure on which get returns the default.
GetDefaultsOn(res) == res = "KeyError"

\* processes lines 78-79: the load failure on which an entry is skipped.
ProcessesSkips(res) == res = "KeyError"

--------------------------------------------------------------------------
\* Where a call goes on, as the set of the caller's possible next locals.

\* The call ends: res is "ok" or the exception that reaches the caller.
Finish(r, res) ==
    [r EXCEPT !.pc = "idle", !.out = res, !.todo = {}, !.info = NoEntry]

\* cleanup line 169: the loop takes another listed name, in any order, or
\* ends.
CleanupNext(r) ==
    IF r.todo = {}
    THEN {Finish(r, "ok")}
    ELSE {[r EXCEPT !.pc = "rm_read", !.name = n, !.todo = r.todo \ {n},
                    !.info = NoEntry, !.passed = FALSE, !.sent = "none"]
            : n \in r.todo}

\* remove ends with res, called by the caller or by cleanup (lines 170-173).
RemoveReturn(r, res) ==
    IF r.op = "cleanup" /\ (res = "ok" \/ CleanupSwallows(res))
    THEN CleanupNext(r)
    ELSE {Finish(r, res)}

\* send_signal ends with res, called by the caller (also through terminate
\* and kill) or by the kill of remove (lines 161-165).
SignalReturn(r, res) ==
    IF r.op \in {"remove", "cleanup"}
    THEN IF res = "ok" \/ RemoveSwallows(res)
         THEN {[r EXCEPT !.pc = "rm_del", !.info = NoEntry]}
         ELSE RemoveReturn(r, res)
    ELSE {Finish(r, res)}

\* processes line 75: the generator takes another listed name or ends.
ProcessesNext(r) ==
    IF r.todo = {}
    THEN {Finish(r, "ok")}
    ELSE {[r EXCEPT !.pc = "pr_read", !.name = n, !.todo = r.todo \ {n}]
            : n \in r.todo}

\* Caller c goes on with locals r2.
\* A call that has ended leaves the caller idle and is reported in ret.
Step(c, r2) ==
    /\ cs' = [d \in Callers |->
                IF d = c THEN (IF r2.pc = "idle" THEN IdleCaller ELSE r2)
                ELSE cs[d]]
    /\ ret' = IF r2.pc = "idle" THEN [by |-> c, call |-> r2] ELSE NoReturn

\* A step of the executor or of a supervised process.
EnvStep ==
    /\ cs' = cs
    /\ ret' = NoReturn

--------------------------------------------------------------------------
\* The operating system: os.kill(pid, sig).

\* The process the executor started for entry n is running.
Running(n) == phase[n] = "running"
Alive(pid) == \E n \in Names : Pid(n) = pid /\ Running(n)

\* How os.kill(pid, sig) can end: delivered, or refused for a reason other
\* than a missing process, when the process exists; no such process (or,
\* on win32, winerror 87) when it does not.
OsKillResults(pid) ==
    IF Alive(pid) THEN {"ok", "OSError"}
    ELSE IF platform = "win32" THEN {"ProcessLookupError", "winerror87"}
    ELSE {"ProcessLookupError"}

\* A delivered signal ends the process at once: SIGKILL, and on win32
\* every signal that is not a console event (TerminateProcess).
Fatal(sig) ==
    \/ sig = "SIGKILL"
    \/ platform = "win32" /\ sig \notin {"CTRL_C_EVENT", "CTRL_BREAK_EVENT"}

Delivered(pid, sig) ==
    [n \in Names |->
       IF Pid(n) = pid /\ Running(n) /\ Fatal(sig) THEN "exited" ELSE phase[n]]
--------------------------------------------------------------------------
\* The calls of the manager.

CanCall(c) == cs[c].pc = "idle" /\ ncalls < MaxCalls

Begin(c, r2) ==
    /\ Step(c, r2)
    /\ ncalls' = ncalls + 1
    /\ oscall' = NoCall
    /\ UNCHANGED <<platform, store, phase>>

\* send_signal(n, sig) is called.
CallSendSignal(c, n, sig) ==
    /\ CanCall(c)
    /\ Begin(c, NewCall("send_signal", n, sig, FALSE, "ss_read"))

\* terminate(n) is called: line 136.
CallTerminate(c, n) ==
    /\ CanCall(c)
    /\ Begin(c, NewCall("terminate", n, TerminateSignal, FALSE, "ss_read"))

\* kill(n) is called: lines 140-143.
CallKill(c, n) ==
    /\ CanCall(c)
    /\ Begin(c, NewCall("kill", n, KillSignal(platform), FALSE, "ss_read"))

\* remove(n, force) is called.
CallRemove(c, n, force) ==
    /\ CanCall(c)
    /\ Begin(c, NewCall("remove", n, "none", force, "rm_read"))

\* cleanup(force) is called.
CallCleanup(c, force) ==
    /\ CanCall(c)
    /\ Begin(c, NewCall("cleanup", 0, "none", force, "cl_list"))

\* processes() is called and the generator is about to be advanced.
CallProcesses(c) ==
    /\ CanCall(c)
    /\ Begin(c, NewCall("processes", 0, "none", FALSE, "pr_list"))

\* get(n, Default), lines 66-71: the record is loaded and returned (in got),
\* or the default when there is none.
Get(c, n) ==
    LET r == NewCall("get", n, "none", FALSE, "get_read")
        res == LoadResult(n)
    IN /\ CanCall(c)
       /\ Begin(c, IF res = "ok"
                   THEN Finish([r EXCEPT !.got = {<<n, store[n]>>}], "ok")
                   ELSE IF GetDefaultsOn(res)
                        THEN Finish([r EXCEPT !.got = {<<n, Default>>}], "ok")
                   ELSE Finish(r, res))

\* run(args, name), lines 81-101: a task signature is built for the given
\* name, or for a new one (n = 0), and returned; nothing is executed.
Run(c, n) ==
    /\ CanCall(c)
    /\ Begin(c, Finish(NewCall("run", n, "none", FALSE, "run"), "ok"))

\* send_signal lines 105-121: the record is loaded, the signal is checked
\* against the platform, and os.kill follows only for a record without a
\* returncode.
SendSignalLoad(c) ==
    LET r == cs[c]
        res == LoadResult(r.name)
    IN /\ r.pc = "ss_read"
       /\ \E r2 \in
            IF res # "ok" THEN SignalReturn(r, res)
            ELSE IF Unsupported(platform, r.sig)
                 THEN SignalReturn(r, "UnsupportedSignalError")
            ELSE IF ShouldSignal(store[r.name])
                 THEN {[r EXCEPT !.pc = "ss_kill", !.info = store[r.name]]}
            ELSE SignalReturn(r, "ok") :
            Step(c, r2)
       /\ oscall' = NoCall
       /\ UNCHANGED <<platform, store, phase, ncalls>>

\* send_signal lines 122-132: os.kill(process_info.pid, sig).
SendSignalKill(c) ==
    LET r == cs[c]
    IN /\ r.pc = "ss_kill"
       /\ oscall' = [pid |-> r.info.pid, sig |-> r.sig, by |-> c]
       /\ \E res \in OsKillResults(r.info.pid) :
            /\ phase' = IF res = "ok" THEN Delivered(r.info.pid, r.sig)
                        ELSE phase
            /\ \E r2 \in
                 IF res = "ok"
                 THEN SignalReturn([r EXCEPT !.sent = "ok"], "ok")
                 ELSE IF IsClosedProcess(platform, res)
                      THEN {[r EXCEPT !.pc = "ss_heal", !.sent = "gone"]}
                 ELSE SignalReturn([r EXCEPT !.sent = "error"], "OSError") :
                 Step(c, r2)
       /\ UNCHANGED <<platform, store, ncalls>>

\* handle_closed_process lines 115-119, then the raise of line 126 or 131:
\* the record read at line 105 is written back with returncode -1; when
\* the entry's directory is gone the write raises KeyError instead.
SendSignalHeal(c) ==
    LET r == cs[c]
    IN /\ r.pc = "ss_heal"
       /\ IF SetItemFails(r.name)
          THEN /\ store' = store
               /\ \E r2 \in SignalReturn(r, "KeyError") : Step(c, r2)
          ELSE /\ store' = SetItem(r.name, HealedInfo(r.info))
               /\ \E r2 \in SignalReturn(r, "ProcessLookupError") : Step(c, r2)
       /\ oscall' = NoCall
       /\ UNCHANGED <<platform, phase, ncalls>>

\* remove lines 155-162: the record is loaded; remove returns when there is
\* none, raises for a running process without force, and goes on to kill.
RemoveLoad(c) ==
    LET r == cs[c]
        res == LoadResult(r.name)
    IN /\ r.pc = "rm_read"
       /\ \E r2 \in
            IF RemoveReturnsOn(res) THEN RemoveReturn(r, "ok")
            ELSE IF res # "ok" THEN RemoveReturn(r, res)
            ELSE IF MustRefuse(store[r.name], r.force)
                 THEN RemoveReturn(r, "ProcessNotTerminatedError")
            ELSE {[r EXCEPT !.pc = "ss_read", !.sig = KillSignal(platform),
                            !.passed = TRUE]} :
            Step(c, r2)
       /\ oscall' = NoCall
       /\ UNCHANGED <<platform, store, phase, ncalls>>

\* remove line 165: del self[name].
RemoveDelete(c) ==
    LET r == cs[c]
    IN /\ r.pc = "rm_del"
       /\ store' = DelItem(r.name)
       /\ \E r2 \in RemoveReturn(r, "ok") : Step(c, r2)
       /\ oscall' = NoCall
       /\ UNCHANGED <<platform, phase, ncalls>>

\* cleanup line 169: the names are listed once, when the loop starts.
CleanupList(c) ==
    LET r == cs[c]
    IN /\ r.pc = "cl_list"
       /\ \E r2 \in CleanupNext([r EXCEPT !.todo = Listing]) :
            Step(c, r2)
       /\ oscall' = NoCall
       /\ UNCHANGED <<platform, store, phase, ncalls>>

\* processes line 75: the names are listed once, when the generator starts.
ProcessesList(c) ==
    LET r == cs[c]
    IN /\ r.pc = "pr_list"
       /\ \E r2 \in ProcessesNext([r EXCEPT !.todo = Listing]) :
            Step(c, r2)
       /\ oscall' = NoCall
       /\ UNCHANGED <<platform, store, phase, ncalls>>

\* processes lines 76-79: the record of the next name is loaded and the
\* pair is yielded, or the name is skipped on KeyError.
ProcessesLoad(c) ==
    LET r == cs[c]
        res == LoadResult(r.name)
    IN /\ r.pc = "pr_read"
       /\ \E r2 \in
            IF res = "ok"
            THEN ProcessesNext(
                   [r EXCEPT !.got = r.got \cup {<<r.name, store[r.name]>>}])
            ELSE IF ProcessesSkips(res) THEN ProcessesNext(r)
            ELSE {Finish(r, res)} :
            Step(c, r2)
       /\ oscall' = NoCall
       /\ UNCHANGED <<platform, store, phase, ncalls>>

--------------------------------------------------------------------------
\* The executor and the supervised processes.

Env(n, ph, st) ==
    /\ phase' = [phase EXCEPT ![n] = ph]
    /\ store' = [store EXCEPT ![n] = st]
    /\ EnvStep
    /\ oscall' = NoCall
    /\ UNCHANGED <<platform, ncalls>>

\* The executor creates the directory of a new entry.
SpawnMkdir(n) ==
    /\ phase[n] = "new"
    /\ Env(n, "mkdir", NoFile)

\* The executor opens the record file for writing.
SpawnOpen(n) ==
    /\ phase[n] = "mkdir"
    /\ Env(n, "open", IF store[n].kind = "absent" THEN NoEntry ELSE BadFile)

\* The executor has started the process and writes its record.
SpawnWrite(n) ==
    /\ phase[n] = "open"
    /\ Env(n, "running", IF store[n].kind = "absent" THEN NoEntry
                         ELSE ProcessInfo(Pid(n), None))

\* The process ends.
ProcessExit(n) ==
    /\ phase[n] = "running"
    /\ Env(n, "exited", store[n])

\* The executor records the exit code of the process it waited for.
ExecutorRecord(n, code) ==
    /\ phase[n] = "exited"
    /\ Env(n, "recorded", IF store[n].kind = "absent" THEN NoEntry
                          ELSE ProcessInfo(Pid(n), Some(code)))

--------------------------------------------------------------------------
Next ==
    \/ \E c \in Callers, n \in Names, sig \in Signals : CallSendSignal(c, n, sig)
    \/ \E c \in Callers, n \in Names : CallTerminate(c, n)
    \/ \E c \in Callers, n \in Names : CallKill(c, n)
    \/ \E c \in Callers, n \in Names, force \in BOOLEAN : CallRemove(c, n, force)
    \/ \E c \in Callers, force \in BOOLEAN : CallCleanup(c, force)
    \/ \E c \in Callers : CallProcesses(c)
    \/ \E c \in Callers, n \in Names : Get(c, n)
    \/ \E c \in Callers, n \in Names \cup {0} : Run(c, n)
    \/ \E c \in Callers : SendSignalLoad(c)
    \/ \E c \in Callers : SendSignalKill(c)
    \/ \E c \in Callers : SendSignalHeal(c)
    \/ \E c \in Callers : RemoveLoad(c)
    \/ \E c \in Callers : RemoveDelete(c)
    \/ \E c \in Callers : CleanupList(c)
    \/ \E c \in Callers : ProcessesList(c)
    \/ \E c \in Callers : ProcessesLoad(c)
    \/ \E n \in Names : SpawnMkdir(n)
    \/ \E n \in Names : SpawnOpen(n)
    \/ \E n \in Names : SpawnWrite(n)
    \/ \E n \in Names : ProcessExit(n)
    \/ \E n \in Names, code \in ExitCodes : ExecutorRecord(n, code)

Spec == Init /\ [][Next]_vars

--------------------------------------------------------------------------
\* One caller and a registry the executor has left in any state: the calls
\* of FirstCaller with no other process taking a step.

FirstCaller == "c1"
Phases == {"new", "mkdir", "open", "running", "exited", "recorded"}

\* What the executor has put in the store for an entry it has brought to
\* phase ph.
EntryAt(n, ph) ==
    CASE ph = "new" -> {NoEntry}
      [] ph = "mkdir" -> {NoFile}
      [] ph = "open" -> {BadFile}
      [] ph \in {"running", "exited"} -> {ProcessInfo(Pid(n), None)}
      [] OTHER -> {ProcessInfo(Pid(n), Some(code)) : code \in ExitCodes}

InitSeq ==
    /\ platform \in Platforms
    /\ phase \in [Names -> Phases]
    /\ store \in [Names -> UNION {EntryAt(n, ph) : n \in Names, ph \in Phases}]
    /\ \A n \in Names : store[n] \in EntryAt(n, phase[n])
    /\ cs = [c \in Callers |-> IdleCaller]
    /\ ncalls = 0
    /\ oscall = NoCall
    /\ ret = NoReturn

NextSeq ==
    \/ \E n \in Names, sig \in Signals : CallSendSignal(FirstCaller, n, sig)
    \/ \E n \in Names : CallTerminate(FirstCaller, n)
    \/ \E n \in Names : CallKill(FirstCaller, n)
    \/ \E n \in Names, force \in BOOLEAN : CallRemove(FirstCaller, n, force)
    \/ \E force \in BOOLEAN : CallCleanup(FirstCaller, force)
    \/ CallProcesses(FirstCaller)
    \/ \E n \in Names : Get(FirstCaller, n)
    \/ \E n \in Names \cup {0} : Run(FirstCaller, n)
    \/ SendSignalLoad(FirstCaller)
    \/ SendSignalKill(FirstCaller)
    \/ SendSignalHeal(FirstCaller)
    \/ RemoveLoad(FirstCaller)
    \/ RemoveDelete(FirstCaller)
    \/ CleanupList(FirstCaller)
    \/ ProcessesList(FirstCaller)
    \/ ProcessesLoad(FirstCaller)

SpecSeq == InitSeq /\ [][NextSeq]_vars

--------------------------------------------------------------------------
\* Properties.

\* Caller c takes the step.
Moved(c) == cs'[c] # cs[c]

\* The record of n can be loaded and has no returncode / has one.
Live(n) == store[n].kind = "json" /\ store[n].returncode = None
Terminated(n) == store[n].kind = "json" /\ store[n].returncode # None

\* The call that ended in the last step.
Ended == ret.call

\* C1: in every interleaving of callers and executor, the del self[name] of
\* a remove(name, force=False), called directly or by cleanup(force=False),
\* never deletes an entry whose record has no returncode at that moment.
C1_UnforcedNeverDeletesLive ==
    [][\A c \in Callers :
         (/\ Moved(c)
          /\ cs[c].pc = "rm_del"
          /\ ~cs[c].force
          /\ store[cs[c].name].kind # "absent")
         => /\ Terminated(cs[c].name)
            /\ store'[cs[c].name] = NoEntry]_vars

\* C1 happens: an unforced remove has just deleted the entry it was given.
C1_Witness ==
    /\ Ended.op = "remove" /\ ~Ended.force /\ Ended.passed
    /\ Ended.out = "ok"
    /\ store[Ended.name] = NoEntry

\* C2: remove(name, force=False) on an entry whose record has no returncode
\* raises ProcessNotTerminatedError and changes nothing: the store, the
\* processes and the signals sent are as before.
C2_UnforcedRemoveOfLiveRefused ==
    [][\A c \in Callers :
         (/\ Moved(c)
          /\ cs[c].pc = "rm_read" /\ cs[c].op = "remove"
          /\ ~cs[c].force
          /\ Live(cs[c].name))
         => /\ ret'.by = c
            /\ ret'.call.out = "ProcessNotTerminatedError"
            /\ ret'.call.name = cs[c].name
            /\ store' = store
            /\ phase' = phase
            /\ oscall' = NoCall]_vars

\* C2 happens: remove has just refused an entry, whose record is there as
\* it was, without a returncode.
C2_Witness ==
    /\ Ended.op = "remove" /\ ~Ended.force
    /\ Ended.out = "ProcessNotTerminatedError"
    /\ Live(Ended.name)

\* C3: send_signal on an entry whose record has a returncode (any value, -1
\* included) makes no os.kill and changes no record, whatever the signal
\* and whoever calls it (the caller, terminate, kill or remove).
C3_TerminatedNeverSignalled ==
    [][\A c \in Callers :
         (/\ Moved(c)
          /\ cs[c].pc = "ss_read"
          /\ Terminated(cs[c].name))
         => /\ cs'[c].pc # "ss_kill"
            /\ oscall' = NoCall
            /\ store' = store
            /\ phase' = phase
            /\ (cs[c].op = "send_signal"
                  => /\ ret'.by = c
                     /\ ret'.call.out \in {"ok", "UnsupportedSignalError"}
                     /\ ret'.call.sent = "none")]_vars

\* C3 happens: send_signal has just returned from a terminated entry
\* without an os.kill; the returncode is the one handle_closed_process
\* wrote.
C3_Witness ==
    /\ Ended.op = "send_signal" /\ Ended.out = "ok" /\ Ended.sent = "none"
    /\ Terminated(Ended.name)
    /\ store[Ended.name].returncode = Some(ClosedReturncode)
    /\ oscall = NoCall

\* C4: when os.kill finds no process with the pid of a record without a
\* returncode, send_signal writes the record back with returncode -1 and
\* then raises ProcessLookupError: whenever ProcessLookupError reaches the
\* caller, the record on disk has returncode -1 (and the pid it had).
C4_ProcessGoneAfterHeal ==
    [][/\ \A c \in Callers :
            (/\ Moved(c)
             /\ cs[c].pc = "ss_kill"
             /\ ~Alive(cs[c].info.pid))
            => /\ cs'[c].pc = "ss_heal"
               /\ store' = store
       /\ \A c \in Callers :
            (/\ Moved(c)
             /\ cs[c].pc = "ss_heal"
             /\ cs[c].op \in {"send_signal", "terminate", "kill"}
             /\ store[cs[c].name].kind # "absent")
            => /\ ret'.by = c
               /\ ret'.call.out = "ProcessLookupError"
       /\ ret'.call.out = "ProcessLookupError"
            => /\ store'[ret'.call.name].kind = "json"
               /\ store'[ret'.call.name].returncode = Some(-1)
               /\ store'[ret'.call.name].pid = Pid(ret'.call.name)]_vars

\* C4 happens: send_signal has just raised ProcessLookupError for an entry
\* whose process ended before the executor recorded an exit code.
C4_Witness ==
    /\ Ended.op = "send_signal" /\ Ended.out = "ProcessLookupError"
    /\ phase[Ended.name] = "exited"
    /\ store[Ended.name].returncode = Some(-1)

\* C5 as stated: on win32 a send_signal with a signal outside SIGTERM,
\* CTRL_C_EVENT, CTRL_BREAK_EVENT always fails with UnsupportedSignalError,
\* whatever the state of the entry (live, terminated or absent).
C5_AsStated ==
    (/\ platform = "win32"
     /\ Ended.op = "send_signal"
     /\ Ended.sig \notin {"SIGTERM", "CTRL_C_EVENT", "CTRL_BREAK_EVENT"})
    => Ended.out = "UnsupportedSignalError"

\* C5, amended: on win32 such a send_signal makes no os.kill and changes no
\* state for any name, and fails with UnsupportedSignalError whenever the
\* record of the name can be loaded (live or terminated); the record is
\* loaded first, so for a name without a record it fails with KeyError, and
\* for a record that is not valid JSON with the decoder's error.
C5_UnsupportedSignalAfterLoad ==
    [][\A c \in Callers :
         (/\ Moved(c)
          /\ cs[c].pc = "ss_read" /\ cs[c].op = "send_signal"
          /\ platform = "win32"
          /\ cs[c].sig \notin {"SIGTERM", "CTRL_C_EVENT", "CTRL_BREAK_EVENT"})
         => /\ ret'.by = c
            /\ ret'.call.out =
                 (CASE store[cs[c].name].kind = "json"
                         -> "UnsupportedSignalError"
                    [] store[cs[c].name].kind = "malformed"
                         -> "JSONDecodeError"
                    [] OTHER -> "KeyError")
            /\ ret'.call.sent = "none"
            /\ oscall' = NoCall
            /\ store' = store
            /\ phase' = phase]_vars

\* C5 happens: on win32 SIGKILL has just been refused for a live entry.
C5_Witness ==
    /\ platform = "win32"
    /\ Ended.op = "send_signal" /\ Ended.sig = "SIGKILL"
    /\ Ended.out = "UnsupportedSignalError"
    /\ Live(Ended.name)

\* C6: with no other process taking a step, cleanup(force=False) over a
\* registry of terminated and live entries ends without raising: it never
\* raises ProcessNotTerminatedError, and when every listed record can be
\* loaded it returns with every entry that was terminated gone and every
\* entry that was live still there with the record it had, in whatever
\* order the names are visited. (Under SpecSeq the executor takes no step,
\* so phase still tells what each entry held when the first call began.)
C6_CleanupRemovesOnlyTerminated ==
    (/\ Ended.op = "cleanup" /\ ~Ended.force
     /\ ncalls = 1)
    => /\ Ended.out # "ProcessNotTerminatedError"
       /\ (\A n \in Names : phase[n] # "open")
            => /\ Ended.out = "ok"
               /\ \A n \in Names :
                    /\ phase[n] = "recorded" => store[n] = NoEntry
                    /\ phase[n] \in {"running", "exited"}
                         => store[n] = ProcessInfo(Pid(n), None)
                    /\ phase[n] = "mkdir" => store[n] = NoFile
       /\ oscall = NoCall

\* C6 happens: cleanup(force=False) has just returned from a registry that
\* held a terminated and a live entry.
C6_Witness ==
    /\ Ended.op = "cleanup" /\ ~Ended.force /\ Ended.out = "ok"
    /\ ncalls = 1
    /\ \E n, m \in Names :
         /\ phase[n] = "recorded" /\ store[n] = NoEntry
         /\ phase[m] = "running" /\ Live(m)

\* C7: remove(name, force=True) on an entry whose record has no returncode
\* goes on to os.kill with the pid of the record and the kill signal of the
\* platform, never lets ProcessLookupError reach the caller, and deletes
\* the entry: when it returns the name is not listed any more and has no
\* record.
C7_ForcedRemoveKillsAndDeletes ==
    [][/\ \A c \in Callers :
            (/\ Moved(c)
             /\ cs[c].op = "remove" /\ cs[c].force
             /\ cs[c].pc \in {"rm_read", "ss_read"}
             /\ Live(cs[c].name))
            => /\ cs'[c].pc = (IF cs[c].pc = "rm_read" THEN "ss_read"
                               ELSE "ss_kill")
               /\ cs'[c].name = cs[c].name
       /\ \A c \in Callers :
            (/\ Moved(c)
             /\ cs[c].op = "remove"
             /\ cs[c].pc = "ss_kill")
            => oscall' = [pid |-> Pid(cs[c].name),
                          sig |-> IF platform = "win32" THEN "SIGTERM"
                                  ELSE "SIGKILL",
                          by |-> c]
       /\ \A c \in Callers :
            (/\ Moved(c)
             /\ cs[c].op = "remove"
             /\ cs[c].pc = "ss_heal"
             /\ store[cs[c].name].kind # "absent")
            => cs'[c].pc = "rm_del"
       /\ ret'.call.op = "remove"
            => /\ ret'.call.out # "ProcessLookupError"
               /\ (ret'.call.passed /\ ret'.call.out = "ok")
                    => /\ store'[ret'.call.name] = NoEntry
                       /\ ret'.call.name \notin Listing']_vars

\* C7 happens: a forced remove whose os.kill was delivered has just
\* returned, and the entry is gone.
C7_Witness ==
    /\ Ended.op = "remove" /\ Ended.force /\ Ended.passed
    /\ Ended.sent = "ok" /\ Ended.out = "ok"
    /\ store[Ended.name] = NoEntry
    /\ phase[Ended.name] = "exited"

\* C8 as stated: once remove is past its ProcessNotTerminatedError check
\* the entry is deleted whatever the outcome of the kill attempt, so a
\* remove that got past the check never ends with the entry still there.
C8_AsStated ==
    (Ended.op = "remove" /\ Ended.passed)
    => store[Ended.name] = NoEntry

\* C8, amended: once remove is past its ProcessNotTerminatedError check the
\* entry is deleted when the kill attempt succeeds, makes no os.kill or
\* fails with ProcessLookupError; an OSError of os.kill other than that
\* reaches the caller of remove and this remove deletes nothing.
C8_DeletedUnlessOSError ==
    [][/\ (ret'.call.op \in {"remove", "cleanup"} /\ ret'.call.passed
           /\ ret'.call.out # "OSError")
            => store'[ret'.call.name] = NoEntry
       /\ \A c \in Callers :
            (/\ Moved(c)
             /\ cs[c].op \in {"remove", "cleanup"}
             /\ ret'.by = c
             /\ ret'.call.out = "OSError")
            => /\ cs[c].pc = "ss_kill"
               /\ store' = store]_vars

\* C8 happens: a remove whose os.kill found no process has just deleted
\* the entry all the same.
C8_Witness ==
    /\ Ended.op = "remove" /\ Ended.passed
    /\ Ended.sent = "gone" /\ Ended.out = "ok"
    /\ store[Ended.name] = NoEntry

\* C9 as stated: processes() skips every listed name whose record fails to
\* load, missing or malformed, so a bad entry never ends the enumeration
\* with an exception.
C9_AsStated ==
    Ended.op = "processes" => Ended.out = "ok"

\* C10: remove(name, force) for a name without a record returns at once for
\* either force: no exception, no os.kill, the store as before. A remove
\* that returned leaves the name without a record, so a second remove of
\* the name is such a call.
C10_RemoveOfMissingIsNoOp ==
    [][/\ \A c \in Callers :
            (/\ Moved(c)
             /\ cs[c].pc = "rm_read" /\ cs[c].op = "remove"
             /\ store[cs[c].name].kind \in {"absent", "nofile"})
            => /\ ret'.by = c
               /\ ret'.call.out = "ok"
               /\ ~ret'.call.passed
               /\ ret'.call.sent = "none"
               /\ store' = store
               /\ phase' = phase
               /\ oscall' = NoCall
       /\ (ret'.call.op = "remove" /\ ret'.call.out = "ok")
            => store'[ret'.call.name].kind \in {"absent", "nofile"}]_vars

\* C10 happens: a forced remove of a name whose entry an earlier call has
\* deleted has just returned without doing anything.
C10_Witness ==
    /\ Ended.op = "remove" /\ Ended.force /\ ~Ended.passed
    /\ Ended.out = "ok"
    /\ store[Ended.name] = NoEntry
    /\ phase[Ended.name] \notin {"new", "mkdir", "open"}
    /\ ncalls = 2

\* Caller c takes the step: a step of a call in progress, or a call that
\* begins (and, for get and run, ends at once).
Acts(c) == Moved(c) \/ (ret'.by = c /\ ncalls' # ncalls)

\* C11: get(name, default) returns the persisted record when the name has
\* one and the default when it has none (no directory, or a directory
\* without a record file); KeyError never reaches its caller; and the step
\* changes no record, no process and sends no signal.
C11_GetReturnsRecordOrDefault ==
    [][\A c \in Callers :
         (Acts(c) /\ ret'.call.op = "get")
         => LET n == ret'.call.name
            IN /\ store[n].kind = "json"
                    => /\ ret'.call.out = "ok"
                       /\ ret'.call.got = {<<n, store[n]>>}
               /\ store[n].kind \in {"absent", "nofile"}
                    => /\ ret'.call.out = "ok"
                       /\ ret'.call.got = {<<n, Default>>}
               /\ ret'.call.out # "KeyError"
               /\ store' = store
               /\ phase' = phase
               /\ oscall' = NoCall]_vars

\* C11 happens: get has just returned the default for a name whose entry an
\* earlier remove deleted.
C11_Witness ==
    /\ Ended.op = "get" /\ Ended.out = "ok"
    /\ Ended.got = {<<Ended.name, Default>>}
    /\ store[Ended.name] = NoEntry
    /\ phase[Ended.name] = "recorded"

\* C12: under every interleaving of the callers and the executor, the
\* returncode of an entry's record moves only from absent to present: a
\* step from a state where the record has a returncode leaves a record
\* with a returncode, unless the step deletes the entry.
C12_ReturncodeNeverCleared ==
    [][\A n \in Names :
         Terminated(n)
         => \/ store'[n] = NoEntry
            \/ /\ store'[n].kind = "json"
               /\ store'[n].returncode # None
               /\ store'[n].pid = store[n].pid]_vars

\* C12 happens: handle_closed_process has just written its record over one
\* in which the executor had recorded an exit code, and the record still
\* has a returncode.
C12_Witness ==
    /\ Ended.op = "send_signal" /\ Ended.sent = "gone"
    /\ Ended.out = "ProcessLookupError"
    /\ phase[Ended.name] = "recorded"
    /\ Terminated(Ended.name)

\* C13: when os.kill fails with an OSError that is neither 'no such
\* process' nor, on win32, winerror 87 (the process is there and the signal
\* is refused), send_signal does not go to handle_closed_process: the call
\* ends at once with that OSError, no record is written, and the record of
\* the entry is still without a returncode.
C13_OtherOSErrorPropagates ==
    [][\A c \in Callers :
         /\ (Moved(c) /\ cs[c].pc = "ss_kill" /\ cs'[c].pc = "ss_heal")
              => ~Alive(cs[c].info.pid)
         /\ (Moved(c) /\ ret'.by = c /\ ret'.call.sent = "error")
              => /\ cs[c].pc = "ss_kill"
                 /\ Alive(cs[c].info.pid)
                 /\ ret'.call.out = "OSError"
                 /\ ret'.call.name = cs[c].name
                 /\ store' = store
                 /\ phase' = phase
                 /\ store'[cs[c].name] = ProcessInfo(cs[c].info.pid, None)]_vars

\* C13 happens: send_signal has just let the OSError of os.kill through,
\* and the record of the running process is without a returncode.
C13_Witness ==
    /\ Ended.op = "send_signal" /\ Ended.sent = "error"
    /\ Ended.out = "OSError"
    /\ Live(Ended.name)
    /\ phase[Ended.name] = "running"

\* C14: an entry is destroyed only by the del self[name] of remove, called
\* directly or by cleanup. Whenever a step takes away the directory of an
\* entry or its record, the step is that deletion, for that name; so no
\* step of get, processes, run, send_signal, terminate or kill, a write of
\* handle_closed_process included, and no step of the executor does it.
C14_DestroyedOnlyByRemove ==
    [][\A n \in Names :
         (/\ store[n].kind # "absent"
          /\ \/ store'[n].kind = "absent"
             \/ (store[n].kind = "json" /\ store'[n].kind # "json"))
         => \E c \in Callers :
              /\ Moved(c)
              /\ cs[c].op \in {"remove", "cleanup"}
              /\ cs[c].pc = "rm_del"
              /\ cs[c].name = n]_vars

\* C14 happens: kill has just ended in handle_closed_process for a process
\* that was gone, and the entry and its record are still there.
C14_Witness ==
    /\ Ended.op = "kill" /\ Ended.sent = "gone"
    /\ Ended.out = "ProcessLookupError"
    /\ store[Ended.name].kind = "json"
    /\ Ended.name \in Listing

\* The step caller c takes ends its call with res.
EndsWith(c, res) == ret'.by = c /\ ret'.call.out = res

\* The step caller c takes inside send_signal is the one send_signal(name,
\* sig) makes in this state, for the name of the call: the failure of the
\* load or of the platform check, os.kill(pid, sig) for a record without a
\* returncode and nothing for one with it, and what follows os.kill.
AsSendSignal(c, sig) ==
    LET r == cs[c]
        n == r.name
    IN /\ r.pc \in {"ss_read", "ss_kill", "ss_heal"}
       /\ r.pc = "ss_read"
            => /\ store' = store /\ phase' = phase /\ oscall' = NoCall
               /\ CASE store[n].kind \in {"absent", "nofile"}
                         -> EndsWith(c, "KeyError")
                    [] store[n].kind = "malformed"
                         -> EndsWith(c, "JSONDecodeError")
                    [] platform = "win32"
                       /\ sig \notin {"SIGTERM", "CTRL_C_EVENT",
                                      "CTRL_BREAK_EVENT"}
                         -> EndsWith(c, "UnsupportedSignalError")
                    [] store[n].returncode = None
                         -> /\ cs'[c].pc = "ss_kill"
                            /\ cs'[c].info = store[n]
                    [] OTHER
                         -> EndsWith(c, "ok") /\ ret'.call.sent = "none"
       /\ r.pc = "ss_kill"
            => /\ oscall' = [pid |-> r.info.pid, sig |-> sig, by |-> c]
               /\ store' = store
               /\ IF Alive(r.info.pid)
                  THEN \/ /\ EndsWith(c, "ok")
                          /\ phase' = Delivered(r.info.pid, sig)
                       \/ /\ EndsWith(c, "OSError")
                          /\ phase' = phase
                  ELSE /\ cs'[c].pc = "ss_heal"
                       /\ phase' = phase
       /\ r.pc = "ss_heal"
            => /\ phase' = phase /\ oscall' = NoCall
               /\ IF store[n].kind = "absent"
                  THEN /\ EndsWith(c, "KeyError")
                       /\ store' = store
                  ELSE /\ EndsWith(c, "ProcessLookupError")
                       /\ store' = [store EXCEPT ![n] =
                                      ProcessInfo(r.info.pid, Some(-1))]

\* C15: kill(name) behaves as send_signal(name, SIGKILL) on posix and as
\* send_signal(name, SIGTERM) on win32, and terminate(name) as
\* send_signal(name, SIGTERM) on both: each call goes straight into
\* send_signal, and every step it takes there is the step send_signal
\* makes with that signal (first conjunct: what send_signal does with the
\* signal it is given), in every state of the entry: same os.kill, same
\* record written, same exception.
C15_KillAndTerminateAsSendSignal ==
    [][\A c \in Callers :
         /\ (Moved(c) /\ cs[c].op = "send_signal")
              => AsSendSignal(c, cs[c].sig)
         /\ (Moved(c) /\ cs[c].op = "kill")
              => AsSendSignal(c, IF platform = "win32" THEN "SIGTERM"
                                 ELSE "SIGKILL")
         /\ (Moved(c) /\ cs[c].op = "terminate")
              => AsSendSignal(c, "SIGTERM")
         /\ (Moved(c) /\ cs[c].pc = "idle"
             /\ cs'[c].op \in {"send_signal", "kill", "terminate"})
              => /\ cs'[c].pc = "ss_read"
                 /\ cs'[c].name \in Names
                 /\ store' = store /\ phase' = phase
                 /\ oscall' = NoCall]_vars

\* C15 happens: on win32 kill has just delivered SIGTERM to the process of
\* a live entry, which ended.
C15_Witness ==
    /\ platform = "win32"
    /\ Ended.op = "kill" /\ Ended.sent = "ok" /\ Ended.out = "ok"
    /\ oscall = [pid |-> Pid(Ended.name), sig |-> "SIGTERM", by |-> ret.by]
    /\ phase[Ended.name] = "exited"

C17_AsStated ==
    \A n \in Names :
       (oscall # NoCall /\ oscall.pid = Pid(n)) => ~Terminated(n)

\* C17, amended: send_signal issues os.kill only when the record it loaded
\* at line 105 had no returncode, and with the pid of that record; the
\* record on disk is not read again, so by the time of os.kill the executor
\* (or another caller's handle_closed_process) may have given it a
\* returncode. The process has ended by then: os.kill finds no process and
\* the call goes on to handle_closed_process; a signal is never delivered
\* for an entry whose record has a returncode.
C17_SignalledOnlyIfLoadedLive ==
    [][\A c \in Callers :
         /\ (Moved(c) /\ cs'[c].pc = "ss_kill")
              => /\ cs[c].pc = "ss_read"
                 /\ Live(cs[c].name)
                 /\ cs'[c].info = store[cs[c].name]
         /\ (Moved(c) /\ oscall' # NoCall)
              => /\ oscall'.by = c
                 /\ cs[c].pc = "ss_kill"
                 /\ cs[c].info = ProcessInfo(Pid(cs[c].name), None)
                 /\ oscall'.pid = cs[c].info.pid
                 /\ Terminated(cs[c].name)
                      => /\ ~Alive(cs[c].info.pid)
                         /\ phase' = phase
                         /\ cs'[c].pc = "ss_heal"]_vars

\* C17 happens: os.kill has just been issued with the pid of an entry
\* whose exit code the executor recorded after this call loaded the record.
C17_Witness ==
    /\ oscall # NoCall
    /\ \E n \in Names :
         /\ oscall.pid = Pid(n)
         /\ store[n] = ProcessInfo(Pid(n), Some(0))
         /\ phase[n] = "recorded"
         /\ cs[oscall.by].pc = "ss_heal"
         /\ cs[oscall.by].name = n

\* C18 as stated: once a record has a returncode, no step of a registry
\* operation changes its value while the entry exists; the write of
\* handle_closed_process takes effect only on a record without a
\* returncode, so an exit code the executor wrote is never replaced by -1.
C18_AsStated ==
    [][\A n \in Names :
         (/\ \E c \in Callers : Acts(c)
          /\ Terminated(n)
          /\ store'[n].kind = "json")
         => store'[n].returncode = store[n].returncode]_vars

\* C18, amended: the only change a registry operation makes to a record is
\* the write of handle_closed_process, which puts the record the call
\* loaded at line 105, with returncode -1, in the place of whatever record
\* the entry has at that moment: a returncode -1 stays -1, and an exit code
\* the executor wrote between the load and the write is replaced by -1.
\* Every other step of a caller leaves every record as it is or, in remove,
\* deletes the entry.
C18_OnlyHealRewritesRecord ==
    [][\A c \in Callers :
         Acts(c)
         => LET r == cs[c]
            IN /\ \A n \in Names :
                    (n # r.name \/ r.pc \notin {"ss_heal", "rm_del"})
                    => store'[n] = store[n]
               /\ r.pc = "rm_del" => store'[r.name] = NoEntry
               /\ r.pc = "ss_heal"
                    => /\ r.info = ProcessInfo(Pid(r.name), None)
                       /\ store'[r.name] =
                            IF store[r.name].kind = "absent" THEN NoEntry
                            ELSE ProcessInfo(Pid(r.name), Some(-1))]_vars

\* C18 happens: the handle_closed_process of a terminate has just written
\* -1 over the exit code the executor had recorded for the entry.
C18_Witness ==
    /\ Ended.op = "terminate" /\ Ended.sent = "gone"
    /\ Ended.out = "ProcessLookupError"
    /\ phase[Ended.name] = "recorded"
    /\ store[Ended.name] = ProcessInfo(Pid(Ended.name), Some(-1))

\* C19 as stated: remove and cleanup never fail with KeyError, also when
\* another caller deletes the entry between this call's load of the record
\* and its kill attempt.
C19_AsStated ==
    Ended.op \in {"remove", "cleanup"} => Ended.out # "KeyError"

\* C20 as stated: a remove, called directly or by cleanup, that loaded a
\* record with a returncode (an unforced remove that got past its check
\* did) issues no os.kill, its kill attempt does nothing, and it deletes
\* the entry without raising.
C20_AsStated ==
    (/\ Ended.op \in {"remove", "cleanup"}
     /\ ~Ended.force
     /\ Ended.passed)
    => /\ Ended.sent = "none"
       /\ Ended.out = "ok"
       /\ store[Ended.name] = NoEntry
====
